---- MODULE Spec2Model ----
(***************************************************************************)
(* Quest / QuestGoal progression engine.                                   *)
(*                                                                         *)
(* A quest owns an ordered list of goals.  A goal reports progress; the    *)
(* quest completes the reporting goal (cascading to its peers), aggregates *)
(* the visible goals' effective progress and then reveals a hidden goal,   *)
(* signals turn-in, auto-completes or emits a progress snapshot.           *)
(*                                                                         *)
(* Every handler is one action: the synchronous call tree it triggers      *)
(* (peer cascade, event proxying, reveal) is computed by operators that    *)
(* thread a "world" record [goals, events, calls, threw] through the       *)
(* statements of the source in their order.                                *)
(***************************************************************************)
EXTENDS Integers, Sequences, FiniteSets, TLC

VARIABLES
    goals,          \* Quest.goals: sequence of QuestGoal records, registration order
    autoComplete,   \* Quest.config.autoComplete
    events,         \* events delivered during the last operation, in order
    calls,          \* QuestGoal.complete invocations of the last operation, in order
    op,             \* the last operation and what it decided
    threw,          \* error the last operation raised ("none" when it returned)
    state,          \* Quest.state: the persisted list of serialized goals
    character       \* the character skills are executed for: effects, attributes, combat

vars == <<goals, autoComplete, events, calls, op, threw, state, character>>

\* the character of a model that executes no skill
NoCharacter == [effects |-> <<>>, attributes |-> <<>>, combatants |-> {}]

----------------------------------------------------------------------------
(* Bounds of the model *)

\* largest number of goals of a quest
MaxGoals == 3
\* largest size of a quest that reports progress: twice its goals, plus the entries
\* of their peers lists, plus the goals that start hidden
MaxSize == 8
\* largest size of a quest whose goals are completed by direct calls: its goals plus
\* the entries of their peers lists
MaxGoalSize == 6
\* call-stack depth available to QuestGoal.complete before the runtime raises RangeError
MaxDepth == 4

\* native percents a goal type may report
Percents == {0, 99, 100}
\* config.title values: 0 is "no title", 1 a title text

\* Array.prototype.find yielding undefined
Undefined == 0
\* goal i is registered under the name i
GoalNames(n) == 1..n
\* the names a peers list may hold when the quest definition is not validated:
\* 0 is the name of no goal
AnyNames(n) == 0..n

\* the result of Math.round(0 / 0); the source only ever compares it with >= 100
NaN == -1

----------------------------------------------------------------------------
(* Small helpers *)

RECURSIVE SeqSum(_)
SeqSum(s) == IF s = <<>> THEN 0 ELSE Head(s) + SeqSum(Tail(s))

SeqsUpTo(S, n) == UNION {[1..k -> S] : k \in 0..n}

\* JavaScript Math.round(num / den) for num >= 0: nearest integer, ties towards
\* +Infinity; 0 / 0 is NaN and Math.round(NaN) is NaN
MathRound(num, den) ==
    IF den = 0 THEN NaN ELSE (2 * num + den) \div (2 * den)

----------------------------------------------------------------------------
(* QuestGoal *)

\* display texts, kept symbolic:
\*   native      the goal type's own progress line for (goal, percent)
\*   titleColonX the template `${title}: X`
\*   empty       the empty string
NativeDisplay(g) == [kind |-> "native", title |-> 0, goal |-> g.name, percent |-> g.state.percent]
TitleColonX(t) == [kind |-> "titleColonX", title |-> t, goal |-> 0, percent |-> 0]
EmptyDisplay == [kind |-> "empty", title |-> 0, goal |-> 0, percent |-> 0]

\* QuestGoal.getProgress as overridden by a concrete goal type: the native progress
\* derived from the goal's state bag
GoalGetProgress(g) == [percent |-> g.state.percent, display |-> NativeDisplay(g)]

\* truthiness of state.completedAsPeer
Truthy(c) == c = "true"

\* variant of QuestGoal._getProgress that ignores state.completedAsPeer
Goal_getProgressNative(g) ==
    LET progress == GoalGetProgress(g)
    IN [display |-> progress.display, percent |-> progress.percent]

\* QuestGoal._getProgress
Goal_getProgress(g) ==
    LET progress == GoalGetProgress(g)
        completedAsPeer == Truthy(g.state.completedAsPeer)
    IN [display |-> IF completedAsPeer
                    THEN (IF g.config.title # 0 THEN TitleColonX(g.config.title) ELSE EmptyDisplay)
                    ELSE progress.display,
        percent |-> IF completedAsPeer THEN 100 ELSE progress.percent]

----------------------------------------------------------------------------
(* Quest lookups *)

\* Array.prototype.find by name from index i on: index of the first goal with
\* that name, else Undefined
RECURSIVE findByNameFrom(_, _, _)
findByNameFrom(gs, name, i) ==
    IF i > Len(gs) THEN Undefined
    ELSE IF gs[i].name = name THEN i
    ELSE findByNameFrom(gs, name, i + 1)

\* Quest.findGoalByName
findGoalByName(gs, name) == findByNameFrom(gs, name, 1)

\* Quest.findPeers: the goal's peer names resolved one by one (Undefined kept in place)
findPeers(gs, g) ==
    [k \in 1..Len(gs[g].peers) |-> findGoalByName(gs, gs[g].peers[k])]

\* variant of the filter that keeps every goal, hidden or not, from index i on
RECURSIVE everyGoalFrom(_, _)
everyGoalFrom(gs, i) ==
    IF i > Len(gs) THEN <<>> ELSE <<i>> \o everyGoalFrom(gs, i + 1)

\* Array.prototype.filter(goal => !goal.config.hidden) from index i on
RECURSIVE visibleFrom(_, _)
visibleFrom(gs, i) ==
    IF i > Len(gs) THEN <<>>
    ELSE IF ~gs[i].config.hidden THEN <<i>> \o visibleFrom(gs, i + 1)
    ELSE visibleFrom(gs, i + 1)

\* Quest.visibleGoals: indices of the goals whose config.hidden is false, in order
visibleGoals(gs) == visibleFrom(gs, 1)

\* variant of the find that yields the last hidden goal from index i on
RECURSIVE lastHiddenFrom(_, _)
lastHiddenFrom(gs, i) ==
    IF i > Len(gs) THEN Undefined
    ELSE IF lastHiddenFrom(gs, i + 1) # Undefined THEN lastHiddenFrom(gs, i + 1)
    ELSE IF gs[i].config.hidden THEN i
    ELSE Undefined

\* variant of the find that starts behind the first goal it is asked to look at
RECURSIVE firstHiddenBehind(_, _)
firstHiddenBehind(gs, i) ==
    IF i + 1 > Len(gs) THEN Undefined
    ELSE IF gs[i + 1].config.hidden THEN i + 1 ELSE firstHiddenBehind(gs, i + 1)

\* Array.prototype.find(goal => goal.config.hidden) from index i on
RECURSIVE firstHiddenFrom(_, _)
firstHiddenFrom(gs, i) ==
    IF i > Len(gs) THEN Undefined
    ELSE IF gs[i].config.hidden THEN i
    ELSE firstHiddenFrom(gs, i + 1)

----------------------------------------------------------------------------
(* QuestGoal.complete: the peer cascade *)

\* who invoked a QuestGoal.complete: Quest.onProgressUpdated, Quest.complete, a
\* caller outside the quest, or the complete() of goal `goal` (itself invoked with
\* the option completedAsPeer)
Caller(kind, goal, completedAsPeer) ==
    [kind |-> kind, goal |-> goal, completedAsPeer |-> completedAsPeer]

RECURSIVE complete(_, _, _, _, _)
RECURSIVE completePeers(_, _, _, _, _)
RECURSIVE completePeersNoGuard(_, _, _, _, _)
RECURSIVE completePeersStrict(_, _, _, _, _)

\* variant of the forEach body without the `if (!completedAsPeer)` guard
completePeersNoGuard(w, g, completedAsPeer, peers, fuel) ==
    IF peers = <<>> \/ w.threw # "none" THEN w
    ELSE LET peer == Head(peers)
             w1 == IF peer # Undefined
                   THEN complete([w EXCEPT !.goals[peer].state.completedAsPeer = "true"],
                                 peer, TRUE, Caller("goal", g, completedAsPeer), fuel - 1)
                   ELSE w
         IN completePeersNoGuard(w1, g, completedAsPeer, Tail(peers), fuel)

\* variant of the forEach body that raises on an unresolved peer
completePeersStrict(w, g, completedAsPeer, peers, fuel) ==
    IF peers = <<>> \/ w.threw # "none" THEN w
    ELSE LET peer == Head(peers)
             w1 == IF peer # Undefined
                   THEN LET w2 == [w EXCEPT !.goals[peer].state.completedAsPeer = "true"]
                        IN IF ~completedAsPeer
                           THEN complete(w2, peer, TRUE, Caller("goal", g, completedAsPeer), fuel - 1)
                           ELSE w2
                   ELSE [w EXCEPT !.threw = "TypeError"]
         IN completePeersStrict(w1, g, completedAsPeer, Tail(peers), fuel)

\* the forEach over quest.findPeers(this) of QuestGoal.complete
completePeers(w, g, completedAsPeer, peers, fuel) ==
    IF peers = <<>> \/ w.threw # "none" THEN w
    ELSE LET peer == Head(peers)
             w1 == IF peer # Undefined
                   THEN LET w2 == [w EXCEPT !.goals[peer].state.completedAsPeer = "true"]
                        IN IF ~completedAsPeer
                           THEN complete(w2, peer, TRUE, Caller("goal", g, completedAsPeer), fuel - 1)
                           ELSE w2
                   ELSE w
         IN completePeers(w1, g, completedAsPeer, Tail(peers), fuel)

\* QuestGoal.complete({completedAsPeer}) on goal g, invoked by the caller `by`;
\* a call with no stack left raises RangeError, which nothing catches; `at` is the
\* number of events the operation had delivered when the call was made
complete(w, g, completedAsPeer, by, fuel) ==
    IF w.threw # "none" THEN w
    ELSE IF fuel = 0 THEN [w EXCEPT !.threw = "RangeError"]
    ELSE LET w1 == [w EXCEPT !.calls = Append(@, [goal |-> g,
                                                  completedAsPeer |-> completedAsPeer,
                                                  by |-> by,
                                                  at |-> Len(w.events)])]
         IN completePeers(w1, g, completedAsPeer, findPeers(w1.goals, g), fuel)

----------------------------------------------------------------------------
(* Quest *)

\* one delivery of an event: to the quest's own listeners (on = "quest"), to goal
\* `goal` because the quest proxied it (on = "proxy"), or emitted on the goal itself
\* (on = "goal"); payload is the argument list
Delivery(on, goal, name, payload) ==
    [on |-> on, goal |-> goal, name |-> name, payload |-> payload]

\* the goals.forEach(goal => goal.emit(event, ...args)) of Quest.emit, from goal i on
RECURSIVE proxyFrom(_, _, _, _)
proxyFrom(gs, i, name, payload) ==
    IF i > Len(gs) THEN <<>>
    ELSE <<Delivery("proxy", i, name, payload)>> \o proxyFrom(gs, i + 1, name, payload)

\* the forEach of a Quest.emit that skips hidden goals, from goal i on
RECURSIVE proxyVisibleFrom(_, _, _, _)
proxyVisibleFrom(gs, i, name, payload) ==
    IF i > Len(gs) THEN <<>>
    ELSE (IF gs[i].config.hidden THEN <<>> ELSE <<Delivery("proxy", i, name, payload)>>)
         \o proxyVisibleFrom(gs, i + 1, name, payload)

\* variant of Quest.emit that does not proxy events to hidden goals
questEmitVisibleOnly(w, name, payload) ==
    LET own == <<Delivery("quest", 0, name, payload)>>
    IN IF name = "progress"
       THEN [w EXCEPT !.events = @ \o own]
       ELSE [w EXCEPT !.events = @ \o own \o proxyVisibleFrom(w.goals, 1, name, payload)]

\* Quest.emit: the quest's listeners first, then every goal unless the event is 'progress'
questEmit(w, name, payload) ==
    LET own == <<Delivery("quest", 0, name, payload)>>
    IN IF name = "progress"
       THEN [w EXCEPT !.events = @ \o own]
       ELSE [w EXCEPT !.events = @ \o own \o proxyFrom(w.goals, 1, name, payload)]

\* EventEmitter.emit on a goal
goalEmit(w, g, name) ==
    [w EXCEPT !.events = Append(@, Delivery("goal", g, name, <<>>))]

\* the filter and map of Quest.fullDescription from goal i on: the texts of the goals
\* whose native percent is at least 100, that have a text, and whose completedAsPeer
\* is not truthy
RECURSIVE finishedTextsFrom(_, _)
finishedTextsFrom(gs, i) ==
    IF i > Len(gs) THEN <<>>
    ELSE (IF /\ GoalGetProgress(gs[i]).percent >= 100
             /\ gs[i].config.addToQuestLogOnCompletion # 0
             /\ ~Truthy(gs[i].state.completedAsPeer)
          THEN <<gs[i].config.addToQuestLogOnCompletion>>
          ELSE <<>>) \o finishedTextsFrom(gs, i + 1)

\* Quest.fullDescription: the description, followed by the texts that join('\n\n')
\* concatenates (none: the description alone)
fullDescription(gs) ==
    [description |-> "description", texts |-> finishedTextsFrom(gs, 1)]

\* the forEach of Quest.getProgress: effective percents and displays of the visible goals
effectivePercents(gs) ==
    LET vis == visibleGoals(gs)
    IN [k \in 1..Len(vis) |-> Goal_getProgress(gs[vis[k]]).percent]

effectiveDisplays(gs) ==
    LET vis == visibleGoals(gs)
    IN [k \in 1..Len(vis) |-> Goal_getProgress(gs[vis[k]]).display]

\* variant of Quest.getProgress that truncates the mean (Math.floor for Math.round)
getProgressFloor(gs) ==
    LET n == Len(visibleGoals(gs))
        overallPercent == SeqSum(effectivePercents(gs))
    IN [percent |-> IF n # 0 THEN overallPercent \div n ELSE 0,
        display |-> effectiveDisplays(gs),
        title |-> "Goal Progress"]

\* variant of Quest.getProgress without the guard on the number of visible goals:
\* 0 / 0 is NaN
getProgressUnguarded(gs) ==
    LET n == Len(visibleGoals(gs))
        overallPercent == SeqSum(effectivePercents(gs))
    IN [percent |-> IF n # 0 THEN MathRound(overallPercent, n) ELSE NaN,
        display |-> effectiveDisplays(gs),
        title |-> "Goal Progress"]

\* Quest.getProgress; display is the list that join('\r\n') concatenates, in order
getProgress(gs) ==
    LET n == Len(visibleGoals(gs))
        overallPercent == SeqSum(effectivePercents(gs))
    IN [percent |-> IF n # 0 THEN MathRound(overallPercent, n) ELSE 0,
        display |-> effectiveDisplays(gs),
        title |-> "Goal Progress"]

\* the for (const goal of this.goals) goal.complete() of Quest.complete, from goal i on
RECURSIVE completeAllFrom(_, _)
completeAllFrom(w, i) ==
    IF i > Len(w.goals) \/ w.threw # "none" THEN w
    ELSE completeAllFrom(complete(w, i, FALSE, Caller("Quest.complete", 0, FALSE), MaxDepth), i + 1)

\* variant of Quest.complete that completes the goals before it emits complete
questCompleteGoalsFirst(w) ==
    LET w1 == completeAllFrom([w EXCEPT !.questCompletes = @ + 1], 1)
    IN IF w1.threw # "none" THEN w1 ELSE questEmit(w1, "complete", <<>>)

\* Quest.complete
questComplete(w) ==
    completeAllFrom(questEmit([w EXCEPT !.questCompletes = @ + 1], "complete", <<>>), 1)

\* variant of the reveal branch that emits the snapshot taken before the reveal
revealNextStale(w) ==
    LET nextHiddenGoal == firstHiddenFrom(w.goals, 1)
    IN IF nextHiddenGoal = Undefined
       THEN [w EXCEPT !.threw = "Error", !.branch = "reveal"]
       ELSE LET w1 == [w EXCEPT !.goals[nextHiddenGoal].config.hidden = FALSE,
                                !.branch = "reveal"]
                w2 == goalEmit(w1, nextHiddenGoal, "reveal")
                progress == [getProgress(w.goals) EXCEPT !.title = "New Goal!"]
            IN questEmit(w2, "progress", <<progress>>)

\* variant of the reveal branch that leaves the goal hidden
revealNextKeepsHidden(w) ==
    LET nextHiddenGoal == firstHiddenFrom(w.goals, 1)
    IN IF nextHiddenGoal = Undefined
       THEN [w EXCEPT !.threw = "Error", !.branch = "reveal"]
       ELSE LET w1 == [w EXCEPT !.branch = "reveal"]
                w2 == goalEmit(w1, nextHiddenGoal, "reveal")
                progress == [getProgress(w2.goals) EXCEPT !.title = "New Goal!"]
            IN questEmit(w2, "progress", <<progress>>)

\* the reveal branch of Quest.onProgressUpdated
revealNext(w) ==
    LET nextHiddenGoal == firstHiddenFrom(w.goals, 1)
    IN IF nextHiddenGoal = Undefined
       THEN [w EXCEPT !.threw = "Error", !.branch = "reveal"]
       ELSE LET w1 == [w EXCEPT !.goals[nextHiddenGoal].config.hidden = FALSE,
                                !.branch = "reveal"]
                w2 == goalEmit(w1, nextHiddenGoal, "reveal")
                progress == [getProgress(w2.goals) EXCEPT !.title = "New Goal!"]
            IN questEmit(w2, "progress", <<progress>>)

\* variant of the completion branch that never auto-completes
decideTurnInOnly(w, auto) ==
    LET progress == getProgress(w.goals)
        w1 == [w EXCEPT !.aggregate = progress.percent,
                        !.atDecision = effectivePercents(w.goals)]
    IN IF progress.percent >= 100
       THEN IF Len(visibleGoals(w1.goals)) < Len(w1.goals)
            THEN revealNext(w1)
            ELSE questEmit([w1 EXCEPT !.branch = "turn-in-ready"], "turn-in-ready", <<>>)
       ELSE questEmit([w1 EXCEPT !.branch = "progress"], "progress", <<progress>>)

\* variant of the completion branch without its return statements: the final
\* this.emit('progress', progress) runs in every case
decideFallsThrough(w, auto) ==
    LET progress == getProgress(w.goals)
        w1 == [w EXCEPT !.aggregate = progress.percent,
                        !.atDecision = effectivePercents(w.goals)]
        w2 == IF progress.percent >= 100
              THEN IF Len(visibleGoals(w1.goals)) < Len(w1.goals)
                   THEN revealNext(w1)
                   ELSE IF auto
                        THEN questComplete([w1 EXCEPT !.branch = "complete"])
                        ELSE questEmit([w1 EXCEPT !.branch = "turn-in-ready"],
                                       "turn-in-ready", <<>>)
              ELSE [w1 EXCEPT !.branch = "progress"]
    IN questEmit(w2, "progress", <<progress>>)

\* Quest.onProgressUpdated from the aggregate on (after the reporting goal was handled)
decide(w, auto) ==
    LET progress == getProgress(w.goals)
        w1 == [w EXCEPT !.aggregate = progress.percent,
                        !.atDecision = effectivePercents(w.goals)]
    IN IF progress.percent >= 100
       THEN IF Len(visibleGoals(w1.goals)) < Len(w1.goals)
            THEN revealNext(w1)
            ELSE IF auto
                 THEN questComplete([w1 EXCEPT !.branch = "complete"])
                 ELSE questEmit([w1 EXCEPT !.branch = "turn-in-ready"], "turn-in-ready", <<>>)
       ELSE questEmit([w1 EXCEPT !.branch = "progress"], "progress", <<progress>>)

\* variant of Quest.onProgressUpdated that does not complete the reporting goal
onProgressUpdatedNoComplete(w, g, auto) ==
    decide(w, auto)

\* Quest.onProgressUpdated(goal)
onProgressUpdated(w, g, auto) ==
    LET goalProgress == GoalGetProgress(w.goals[g])
        w1 == IF goalProgress.percent >= 100
              THEN complete(w, g, FALSE, Caller("onProgressUpdated", 0, FALSE), MaxDepth)
              ELSE w
    IN IF w1.threw # "none" THEN w1 ELSE decide(w1, auto)

----------------------------------------------------------------------------
(* State machine *)

\* the world an operation starts in: the goals as they are, empty traces
Start(gs) ==
    [goals |-> gs, events |-> <<>>, calls |-> <<>>, threw |-> "none",
     branch |-> "none", aggregate |-> 0, atDecision |-> <<>>, questCompletes |-> 0]

\* what is kept of an operation once it returned or raised
Done(w, name, g, p, asPeer) ==
    /\ goals' = w.goals
    /\ events' = w.events
    /\ calls' = w.calls
    /\ threw' = w.threw
    /\ op' = [name |-> name, goal |-> g, percent |-> p, completedAsPeer |-> asPeer,
              branch |-> w.branch, aggregate |-> w.aggregate,
              atDecision |-> w.atDecision, questCompletes |-> w.questCompletes]
    /\ UNCHANGED state

\* all ways to give goals 1..n peers lists over `names` with at most `budget` entries
\* in total; with selfOk = FALSE no goal names itself
RECURSIVE PeerSetups(_, _, _, _)
PeerSetups(n, names, budget, selfOk) ==
    IF n = 0 THEN {<<>>}
    ELSE UNION {{Append(rest, pl) :
                    rest \in PeerSetups(n - 1, names, budget - Len(pl), selfOk)} :
                pl \in SeqsUpTo(IF selfOk THEN names ELSE names \ {n}, budget)}

\* the titles of a quest definition in which every other goal has one
AlternateTitles(n) == [i \in 1..n |-> i % 2]

\* config.addToQuestLogOnCompletion of the goal registered as i, in quest definitions
\* whose first two goals carry a quest log text: text i, or 0 for no text
QuestLogText(i) == IF i <= 2 THEN i ELSE 0

\* a goal as QuestGoal's constructor and setPeers leave it
NewGoal(name, hidden, title, peers) ==
    [name |-> name,
     config |-> [hidden |-> hidden, title |-> title,
                 addToQuestLogOnCompletion |-> QuestLogText(name)],
     peers |-> peers,
     state |-> [completedAsPeer |-> "unset", percent |-> 0]]

\* a quest right after construction: goals registered under the names 1..n
InitQuest(n, hid, title, ps) ==
    /\ goals = [i \in 1..n |-> NewGoal(i, hid[i], title[i], ps[i])]
    /\ events = <<>>
    /\ calls = <<>>
    /\ threw = "none"
    /\ state = <<>>
    /\ op = [name |-> "new", goal |-> 0, percent |-> 0, completedAsPeer |-> FALSE,
             branch |-> "none", aggregate |-> 0, atDecision |-> <<>>,
             questCompletes |-> 0]

Init ==
    /\ autoComplete \in BOOLEAN
    /\ character = NoCharacter
    /\ \E n \in 0..MaxGoals :
         \E hid \in [1..n -> BOOLEAN] :
            \E ps \in PeerSetups(n, GoalNames(n),
                                  MaxSize - 2 * n - Cardinality({i \in 1..n : hid[i]}), FALSE) :
              InitQuest(n, hid, AlternateTitles(n), ps)

\* goal g's native percent becomes p and the goal emits 'progress'
GoalProgress ==
    \E g \in 1..Len(goals), p \in Percents :
        \E w \in {onProgressUpdated(Start([goals EXCEPT ![g].state.percent = p]),
                                     g, autoComplete)} :
            /\ Done(w, "progress", g, p, FALSE)
            /\ UNCHANGED <<autoComplete, character>>

\* the surrounding system calls Quest.complete() (turn-in)
TurnIn ==
    \E w \in {questComplete(Start(goals))} :
        /\ Done(w, "complete", 0, 0, FALSE)
        /\ UNCHANGED <<autoComplete, character>>

Next == GoalProgress \/ TurnIn

Spec == Init /\ [][Next]_vars

----------------------------------------------------------------------------
(* The older variant of Quest: no findPeers, no per-goal completion in            *)
(* onProgressUpdated, native goal progress in the aggregate and no guard on the   *)
(* number of visible goals                                                        *)

\* Quest.getProgress of the older variant
getProgressOld(gs) ==
    LET vis == visibleGoals(gs)
        overallPercent == SeqSum([k \in 1..Len(vis) |-> GoalGetProgress(gs[vis[k]]).percent])
    IN [percent |-> MathRound(overallPercent, Len(vis)),
        display |-> [k \in 1..Len(vis) |-> GoalGetProgress(gs[vis[k]]).display],
        title |-> "Goal Progress"]

\* QuestGoal.complete against the older Quest: this.quest.findPeers is not a function
completeOld(w, g) ==
    [w EXCEPT !.calls = Append(@, [goal |-> g, completedAsPeer |-> FALSE,
                                   by |-> Caller("Quest.complete", 0, FALSE),
                                   at |-> Len(w.events)]),
              !.threw = "TypeError"]

\* Quest.complete of the older variant: the loop ends at the first goal's complete()
questCompleteOld(w) ==
    LET w1 == questEmit([w EXCEPT !.questCompletes = @ + 1], "complete", <<>>)
    IN IF Len(w1.goals) > 0 THEN completeOld(w1, 1) ELSE w1

\* the reveal branch of the older Quest.onProgressUpdated
revealNextOld(w) ==
    LET nextHiddenGoal == firstHiddenFrom(w.goals, 1)
    IN IF nextHiddenGoal = Undefined
       THEN [w EXCEPT !.threw = "Error", !.branch = "reveal"]
       ELSE LET w1 == [w EXCEPT !.goals[nextHiddenGoal].config.hidden = FALSE,
                                !.branch = "reveal"]
                w2 == goalEmit(w1, nextHiddenGoal, "reveal")
                progress == [getProgressOld(w2.goals) EXCEPT !.title = "New Goal!"]
            IN questEmit(w2, "progress", <<progress>>)

\* Quest.onProgressUpdated() of the older variant
onProgressUpdatedOld(w, auto) ==
    LET progress == getProgressOld(w.goals)
        vis == visibleGoals(w.goals)
        w1 == [w EXCEPT !.aggregate = progress.percent,
                        !.atDecision = [k \in 1..Len(vis) |->
                                           GoalGetProgress(w.goals[vis[k]]).percent]]
    IN IF progress.percent >= 100
       THEN IF Len(vis) < Len(w1.goals)
            THEN revealNextOld(w1)
            ELSE IF auto
                 THEN questCompleteOld([w1 EXCEPT !.branch = "complete"])
                 ELSE questEmit([w1 EXCEPT !.branch = "turn-in-ready"], "turn-in-ready", <<>>)
       ELSE questEmit([w1 EXCEPT !.branch = "progress"], "progress", <<progress>>)

\* goal g's native percent becomes p and the goal emits 'progress' (older Quest)
GoalProgressOld ==
    \E g \in 1..Len(goals), p \in Percents :
        \E w \in {onProgressUpdatedOld(Start([goals EXCEPT ![g].state.percent = p]),
                                        autoComplete)} :
            /\ Done(w, "progress", g, p, FALSE)
            /\ UNCHANGED <<autoComplete, character>>

\* the surrounding system calls the older Quest.complete() (turn-in)
TurnInOld ==
    \E w \in {questCompleteOld(Start(goals))} :
        /\ Done(w, "complete", 0, 0, FALSE)
        /\ UNCHANGED <<autoComplete, character>>

\* the surrounding system asks for the aggregate (Quest.serialize, quest log display)
ReadProgressOld ==
    \E w \in {[Start(goals) EXCEPT !.aggregate = getProgressOld(goals).percent]} :
        /\ Done(w, "getProgress", 0, 0, FALSE)
        /\ UNCHANGED <<autoComplete, character>>

NextOld == GoalProgressOld \/ TurnInOld \/ ReadProgressOld

SpecOld == Init /\ [][NextOld]_vars

----------------------------------------------------------------------------
(* QuestGoal.complete called on its own *)

InitGoal ==
    /\ autoComplete = FALSE
    /\ character = NoCharacter
    /\ \E n \in 1..MaxGoals :
         \E ps \in PeerSetups(n, AnyNames(n), MaxGoalSize - n, TRUE) :
              InitQuest(n, [i \in 1..n |-> FALSE], AlternateTitles(n), ps)

\* goal.complete({completedAsPeer}) called from outside the quest
GoalComplete ==
    \E g \in 1..Len(goals), asPeer \in BOOLEAN :
        \E w \in {complete(Start(goals), g, asPeer, Caller("external", 0, FALSE), MaxDepth)} :
            /\ Done(w, "goal.complete", g, 0, asPeer)
            /\ UNCHANGED <<autoComplete, character>>

NextGoal == GoalComplete

SpecGoal == InitGoal /\ [][NextGoal]_vars

----------------------------------------------------------------------------
(* Quest.emit called by the surrounding system *)

\* event names the surrounding system emits on a quest: the one the quest does not
\* proxy and one of the system's own choosing
EventNames == {"progress", "start"}
\* argument lists of such an emit
Payloads == {<<1, 2>>}

\* quest.emit(name, ...payload) called from outside the quest
QuestEmit ==
    \E name \in EventNames, payload \in Payloads :
        \E w \in {questEmit(Start(goals), name, payload)} :
            /\ Done(w, "emit", 0, 0, FALSE)
            /\ UNCHANGED <<autoComplete, character>>

NextEmit == GoalProgress \/ TurnIn \/ QuestEmit

SpecEmit == Init /\ [][NextEmit]_vars

----------------------------------------------------------------------------
(* Persistence: Quest.serialize, Quest.hydrate and the reload of a saved quest *)

\* largest number of goals of a quest that is saved and reloaded
MaxPersistGoals == 2

\* values of state.completedAsPeer in saved data: absent, true, false
SavedFlags == {"unset", "true", "false"}
\* native percents held by the state bags of saved data
SavedPercents == {0, 100}

\* variant of QuestGoal.serialize that saves the effective percent as the native one
goalSerializeEffective(g) ==
    [state |-> [g.state EXCEPT !.percent = Goal_getProgress(g).percent],
     progress |-> Goal_getProgress(g), config |-> g.config]

\* QuestGoal.serialize
goalSerialize(g) ==
    [state |-> g.state, progress |-> Goal_getProgress(g), config |-> g.config]

\* QuestGoal.hydrate
goalHydrate(g, st) ==
    [g EXCEPT !.state = st]

\* Quest.serialize
questSerialize(gs) ==
    [state |-> [i \in 1..Len(gs) |-> goalSerialize(gs[i])],
     progress |-> getProgress(gs),
     config |-> [desc |-> "description", level |-> "level", title |-> "title"]]

RECURSIVE hydrateFrom(_, _, _)
RECURSIVE hydrateFromWithConfig(_, _, _)

\* variant of the forEach of Quest.hydrate that also restores the saved config
hydrateFromWithConfig(w, st, i) ==
    IF i > Len(st) \/ w.threw # "none" THEN w
    ELSE IF i > Len(w.goals) THEN [w EXCEPT !.threw = "TypeError"]
    ELSE hydrateFromWithConfig(
             [w EXCEPT !.goals[i] = [goalHydrate(@, st[i].state) EXCEPT !.config = st[i].config]],
             st, i + 1)

\* the forEach of Quest.hydrate from entry i on; this.goals[i] of an entry beyond
\* the goals is undefined and calling hydrate on it raises TypeError
hydrateFrom(w, st, i) ==
    IF i > Len(st) \/ w.threw # "none" THEN w
    ELSE IF i > Len(w.goals) THEN [w EXCEPT !.threw = "TypeError"]
    ELSE hydrateFrom([w EXCEPT !.goals[i] = goalHydrate(@, st[i].state)], st, i + 1)

\* Quest.hydrate, reading the list st held by this.state
questHydrate(w, st) == hydrateFrom(w, st, 1)

\* saved data of k goals: entries of the shape serialize() writes, holding any state bag
SavedStates(k) ==
    {[i \in 1..k |-> [goalSerialize([NewGoal(i, hid[i], AlternateTitles(k)[i], <<>>)
                                        EXCEPT !.state = bag[i]])
                         EXCEPT !.state = bag[i]]] :
        hid \in [1..k -> BOOLEAN],
        bag \in [1..k -> [completedAsPeer : SavedFlags, percent : SavedPercents]]}

\* what an operation on the persisted list leaves: goals gs, Quest.state st
Persisted(gs, st, name) ==
    /\ goals' = gs
    /\ state' = st
    /\ events' = <<>>
    /\ calls' = <<>>
    /\ threw' = "none"
    /\ op' = [name |-> name, goal |-> 0, percent |-> 0, completedAsPeer |-> FALSE,
              branch |-> "none", aggregate |-> 0, atDecision |-> <<>>,
              questCompletes |-> 0]
    /\ UNCHANGED <<autoComplete, character>>

InitPersist ==
    /\ autoComplete = FALSE
    /\ character = NoCharacter
    /\ \E n \in 1..MaxPersistGoals :
         \E hid \in [1..n -> BOOLEAN] :
              InitQuest(n, hid, AlternateTitles(n), [i \in 1..n |-> <<>>])

\* quest.state = quest.serialize().state
SaveState ==
    Persisted(goals, questSerialize(goals).state, "serialize")

\* a progress report of a quest that has not been saved or loaded yet
Play ==
    /\ state = <<>>
    /\ GoalProgress

\* the surrounding system assigns quest.state from the player's saved data, which
\* it does to a quest it has just constructed
LoadState ==
    /\ op.name = "new"
    /\ \E k \in 0..MaxPersistGoals :
          \E st \in SavedStates(k) :
              Persisted(goals, st, "load")

\* the player is saved and loaded again: the quest is serialized, a new Quest is
\* constructed from the same definition (every goal with the hidden flag of its
\* definition, which is true for a goal still hidden, and an empty state bag) and
\* given the saved list as its state
Reload ==
    \E hid \in [1..Len(goals) -> BOOLEAN] :
        /\ \A i \in 1..Len(goals) : goals[i].config.hidden => hid[i]
        /\ Persisted([i \in 1..Len(goals) |->
                         NewGoal(goals[i].name, hid[i], goals[i].config.title, goals[i].peers)],
                     questSerialize(goals).state, "reload")

\* quest.hydrate()
Hydrate ==
    \E w \in {questHydrate(Start(goals), state)} :
        /\ Done(w, "hydrate", 0, 0, FALSE)
        /\ UNCHANGED <<autoComplete, character>>

NextPersist == Play \/ SaveState \/ LoadState \/ Reload \/ Hydrate

SpecPersist == InitPersist /\ [][NextPersist]_vars

----------------------------------------------------------------------------
(* QuestGoal.setPeers: the peers argument of a goal definition *)

\* longest peers argument, in characters
MaxArgLen == 3

\* characters of a peers argument: two letters of names, the separator, a blank
Chars == {"a", "b", ",", " "}
\* an absent (undefined) peers argument: no string of Chars
Absent == <<"undefined">>
\* the peers arguments: absent, or a string (a sequence of characters)
PeerArgs == {Absent} \cup SeqsUpTo(Chars, MaxArgLen)

\* String.prototype.split(','): the pieces between the separators, empty ones kept
RECURSIVE Split(_)
Split(s) ==
    IF s = <<>> THEN <<(<<>>)>>
    ELSE LET rest == Split(Tail(s))
         IN IF Head(s) = ","
            THEN <<(<<>>)>> \o rest
            ELSE <<(<<Head(s)>> \o Head(rest))>> \o Tail(rest)

\* String.prototype.trim: blanks removed at both ends
RECURSIVE TrimStart(_)
TrimStart(s) ==
    IF s # <<>> /\ Head(s) = " " THEN TrimStart(Tail(s)) ELSE s

RECURSIVE TrimEnd(_)
TrimEnd(s) ==
    IF s # <<>> /\ s[Len(s)] = " " THEN TrimEnd(SubSeq(s, 1, Len(s) - 1)) ELSE s

Trim(s) == TrimEnd(TrimStart(s))

\* variant of QuestGoal.setPeers that empties the list when given no peers
setPeersReset(g, peers) ==
    IF peers # Absent /\ Len(peers) # 0
    THEN [g EXCEPT !.peers = [k \in 1..Len(Split(peers)) |-> Trim(Split(peers)[k])]]
    ELSE [g EXCEPT !.peers = <<>>]

\* QuestGoal.setPeers: `peers && peers.length` is false for undefined and for ''
setPeers(g, peers) ==
    IF peers # Absent /\ Len(peers) # 0
    THEN [g EXCEPT !.peers = [k \in 1..Len(Split(peers)) |-> Trim(Split(peers)[k])]]
    ELSE g

\* a goal right after its construction; no quest operation runs in this specification
InitPeers ==
    /\ autoComplete = FALSE
    /\ character = NoCharacter
    /\ InitQuest(1, <<FALSE>>, AlternateTitles(1), <<(<<>>)>>)

\* goal.setPeers(arg) on the goal
SetPeers ==
    \E arg \in PeerArgs :
        /\ goals' = [goals EXCEPT ![1] = setPeers(@, arg)]
        /\ op' = [name |-> "setPeers", goal |-> 1, arg |-> arg]
        /\ threw' = "none"
        /\ UNCHANGED <<autoComplete, character, events, calls, state>>

NextPeers == SetPeers

SpecPeers == InitPeers /\ [][NextPeers]_vars

----------------------------------------------------------------------------

(* Quest.addGoal: a quest whose goals are registered one by one *)

\* largest number of goals registered on such a quest
MaxBuildGoals == 2

\* variant of Quest.addGoal that puts the new goal in front
addGoalFront(gs, goal) == <<goal>> \o gs

\* Quest.addGoal: this.goals.push(goal)
addGoal(gs, goal) == Append(gs, goal)

\* a quest right after new Quest(...), completed by turn-in: no goals yet
InitBuild ==
    /\ autoComplete = FALSE
    /\ character = NoCharacter
    /\ InitQuest(0, <<>>, <<>>, <<>>)

\* quest.addGoal(goal) with a goal just constructed under the next name, without peers
AddGoal ==
    /\ Len(goals) < MaxBuildGoals
    /\ \E hidden \in BOOLEAN :
         \E peers \in {<<>>} :
            /\ goals' = addGoal(goals, NewGoal(Len(goals) + 1, hidden,
                                               (Len(goals) + 1) % 2, peers))
            /\ events' = <<>>
            /\ calls' = <<>>
            /\ threw' = "none"
            /\ op' = [name |-> "addGoal", goal |-> Len(goals) + 1, percent |-> 0,
                      completedAsPeer |-> FALSE, branch |-> "none", aggregate |-> 0,
                      atDecision |-> <<>>, questCompletes |-> 0]
            /\ UNCHANGED <<autoComplete, character, state>>

NextBuild == AddGoal \/ GoalProgress \/ TurnIn \/ QuestEmit \/ SaveState \/ Hydrate

SpecBuild == InitBuild /\ [][NextBuild]_vars

----------------------------------------------------------------------------

(* Staged reveal: a quest whose goals are all natively at 100, at least one of    *)
(* them visible, and whose goals go on emitting 'progress'                        *)

\* progress notifications followed per quest
MaxNotifications == MaxGoals + 1

\* a quest of n goals, all natively at 100 before any of them reported; op also
\* keeps the number of notifications so far and the number of goals hidden at first
InitStaged ==
    /\ autoComplete \in BOOLEAN
    /\ character = NoCharacter
    /\ \E n \in 1..MaxGoals :
         \E hid \in {h \in [1..n -> BOOLEAN] : \E i \in 1..n : ~h[i]} :
            \E ps \in PeerSetups(n, GoalNames(n),
                                  MaxSize - 2 * n - Cardinality({i \in 1..n : hid[i]}), FALSE) :
              /\ goals = [i \in 1..n |->
                            [NewGoal(i, hid[i], AlternateTitles(n)[i], ps[i])
                                EXCEPT !.state.percent = 100]]
              /\ events = <<>>
              /\ calls = <<>>
              /\ threw = "none"
              /\ state = <<>>
              /\ op = [name |-> "new", goal |-> 0, percent |-> 0, completedAsPeer |-> FALSE,
                       branch |-> "none", aggregate |-> 0, atDecision |-> <<>>,
                       questCompletes |-> 0, notifications |-> 0,
                       hiddenAtStart |-> Cardinality({i \in 1..n : hid[i]})]

\* goal g emits 'progress' with its native percent unchanged: the listener that
\* addGoal registered runs Quest.onProgressUpdated(goal)
Notify ==
    /\ op.notifications < MaxNotifications
    /\ \E g \in 1..Len(goals) :
        \E w \in {onProgressUpdated(Start(goals), g, autoComplete)} :
            /\ goals' = w.goals
            /\ events' = w.events
            /\ calls' = w.calls
            /\ threw' = w.threw
            /\ op' = [name |-> "progress", goal |-> g, percent |-> goals[g].state.percent,
                      completedAsPeer |-> FALSE, branch |-> w.branch,
                      aggregate |-> w.aggregate, atDecision |-> w.atDecision,
                      questCompletes |-> w.questCompletes,
                      notifications |-> op.notifications + 1,
                      hiddenAtStart |-> op.hiddenAtStart]
            /\ UNCHANGED <<autoComplete, character, state>>

NextStaged == Notify

\* a notification can still be followed: ENABLED <<NextStaged>>_vars, the guard of
\* Notify in a quest that has a goal
CanNotify == op.notifications < MaxNotifications /\ Len(goals) > 0

\* every 'progress' a goal emits is delivered, EventEmitter.emit running the
\* listener synchronously: WF_vars(NextStaged) with its ENABLED written out
FairDelivery == []<>(~CanNotify) \/ []<><<NextStaged>>_vars

SpecStaged == InitStaged /\ [][NextStaged]_vars /\ FairDelivery

----------------------------------------------------------------------------

(* Skill: execute, cooldown and resource costs of the skills of a character       *)

\* highest value an attribute regenerates to
MaxAttribute == 2

\* ISkillOptions.cooldown: null, a number of seconds, or an ISkillCooldown object
NoCooldown == [kind |-> "null", group |-> "", length |-> 0]
Seconds(n) == [kind |-> "number", group |-> "", length |-> n]
InGroup(group, n) == [kind |-> "object", group |-> group, length |-> n]

\* ISkillOptions.resource: null, one ISkillResource, or an array of them
NoResource == [kind |-> "null", costs |-> <<>>]
Cost(attribute, cost) == [attribute |-> attribute, cost |-> cost]
OneResource(r) == [kind |-> "single", costs |-> <<r>>]
Resources(rs) == [kind |-> "array", costs |-> rs]

\* the skill definitions of the bundle, by id: a skill with a cooldown of its own, two
\* skills sharing the cooldown group "g", a member of the group without a length, a
\* passive skill declared in the group, a skill without cooldown, and a second
\* skill with a cooldown of its own
SkillConfigs ==
    [slash |-> [flags |-> {}, cooldown |-> Seconds(2),
                resource |-> OneResource(Cost("mana", 1)), initiatesCombat |-> TRUE],
     bash  |-> [flags |-> {}, cooldown |-> InGroup("g", 2),
                resource |-> NoResource, initiatesCombat |-> TRUE],
     kick  |-> [flags |-> {}, cooldown |-> InGroup("g", 1),
                resource |-> Resources(<<Cost("mana", 1), Cost("rage", 2)>>),
                initiatesCombat |-> FALSE],
     feint |-> [flags |-> {}, cooldown |-> InGroup("g", 0),
                resource |-> NoResource, initiatesCombat |-> FALSE],
     aura  |-> [flags |-> {"PASSIVE"}, cooldown |-> InGroup("g", 2),
                resource |-> OneResource(Cost("mana", 1)), initiatesCombat |-> FALSE],
     rest  |-> [flags |-> {}, cooldown |-> NoCooldown,
                resource |-> NoResource, initiatesCombat |-> FALSE],
     heal  |-> [flags |-> {}, cooldown |-> Seconds(1),
                resource |-> NoResource, initiatesCombat |-> TRUE]]

SkillIds == DOMAIN SkillConfigs

\* Skill's constructor: cooldownGroup and cooldownLength from config.cooldown; a null
\* cooldownLength is kept as 0 and a null cooldownGroup as "", each falsy like the
\* value it stands for in every test the class makes
Skill(id) ==
    LET config == SkillConfigs[id]
    IN [id |-> id,
        name |-> id,
        flags |-> config.flags,
        cooldownGroup |-> IF config.cooldown.kind = "object" THEN config.cooldown.group ELSE "",
        cooldownLength |-> config.cooldown.length,
        resource |-> config.resource,
        initiatesCombat |-> config.initiatesCombat]

\* Skill.getCooldownId: 'skillgroup:' + group or 'skill:' + id, the two parts kept apart
getCooldownId(skill) ==
    IF skill.cooldownGroup # ""
    THEN <<"skillgroup:", skill.cooldownGroup>>
    ELSE <<"skill:", skill.id>>

\* Skill.getDefaultCooldownConfig().config, with the name and duration that
\* createCooldownEffect passes on top of it
DefaultCooldownConfig(name, duration) ==
    [name |-> name, duration |-> duration, unique |-> FALSE, type |-> <<"cooldown">>]

\* EffectFactory.create: a new Effect of the definition `id`, its config and state
\* its own
EffectFactoryCreate(id, config, effectState) ==
    [id |-> id, config |-> config, state |-> effectState, skill |-> ""]

\* Skill.createCooldownEffect
createCooldownEffect(skill) ==
    LET duration == skill.cooldownLength
        effect == EffectFactoryCreate("cooldown",
                      DefaultCooldownConfig(<<"Cooldown (", skill.name, ")">>, duration * 1000),
                      [cooldownId |-> getCooldownId(skill)])
    IN [effect EXCEPT !.skill = skill.id]

\* what Skill.onCooldown returns when no effect matches: false
NoEffect == [id |-> "false", config |-> DefaultCooldownConfig(<<>>, 0),
             state |-> [cooldownId |-> <<>>], skill |-> ""]

\* variant of the loop that matches the effect the skill itself added, not the
\* cooldown id
RECURSIVE onCooldownOwnFrom(_, _, _)
onCooldownOwnFrom(skill, effects, k) ==
    IF k > Len(effects) THEN NoEffect
    ELSE IF effects[k].id = "cooldown" /\ effects[k].skill = skill.id
         THEN effects[k]
         ELSE onCooldownOwnFrom(skill, effects, k + 1)

\* the for loop of Skill.onCooldown over character.effects.entries(), from entry k on
RECURSIVE onCooldownFrom(_, _, _)
onCooldownFrom(skill, effects, k) ==
    IF k > Len(effects) THEN NoEffect
    ELSE IF effects[k].id = "cooldown" /\ effects[k].state.cooldownId = getCooldownId(skill)
         THEN effects[k]
         ELSE onCooldownFrom(skill, effects, k + 1)

\* Skill.onCooldown
onCooldown(skill, player) == onCooldownFrom(skill, player.effects, 1)

\* Character.addEffect: the effect joins the character's effects
addEffect(player, effect) == [player EXCEPT !.effects = Append(@, effect)]

\* Character.initiateCombat
initiateCombat(player, target) == [player EXCEPT !.combatants = @ \cup {target}]

\* Skill.hasEnoughResource
hasEnoughResource(player, resource) ==
    \/ resource.cost = 0
    \/ /\ resource.attribute \in DOMAIN player.attributes
       /\ player.attributes[resource.attribute] >= resource.cost

\* Skill.hasEnoughResources: every() over an array, the one resource otherwise
hasEnoughResources(skill, player) ==
    \A k \in 1..Len(skill.resource.costs) : hasEnoughResource(player, skill.resource.costs[k])

\* Skill.payResourceCost: the cost is damage the player deals to their own attribute
payResourceCost(player, resource) ==
    [player EXCEPT !.attributes[resource.attribute] = @ - resource.cost]

\* Skill.payResourceCosts, from cost k on
RECURSIVE payResourceCostsFrom(_, _, _)
payResourceCostsFrom(skill, player, k) ==
    IF k > Len(skill.resource.costs) THEN player
    ELSE payResourceCostsFrom(skill, payResourceCost(player, skill.resource.costs[k]), k + 1)

payResourceCosts(skill, player) == payResourceCostsFrom(skill, player, 1)

\* Skill.cooldown: the effect whose config.type is set to 'cooldown:' + id is not the
\* one that is added; a second createCooldownEffect() makes that one
cooldown(skill, player) ==
    IF skill.cooldownLength = 0 THEN player
    ELSE LET effect == [createCooldownEffect(skill)
                            EXCEPT !.config.type = <<"cooldown:", skill.id>>]
         IN addEffect(player, createCooldownEffect(skill))

\* the character the skills act on, as target
Self == "player"

Targets == {Self, "npc"}

\* what this.run returns: false, or anything else
RunResults == {"false", "undefined"}

\* how an execute ended: the character, the calls made in order, the error thrown
Ended(player, made, error) == [character |-> player, calls |-> made, threw |-> error]

\* variant of Skill.execute that ignores what run returned
executeIgnoresRun(skill, player, target, result) ==
    IF "PASSIVE" \in skill.flags THEN Ended(player, <<>>, "PassiveError")
    ELSE IF skill.cooldownLength # 0 /\ onCooldown(skill, player) # NoEffect
    THEN Ended(player, <<>>, "CooldownError")
    ELSE IF skill.resource.kind # "null" /\ ~hasEnoughResources(skill, player)
    THEN Ended(player, <<>>, "NotEnoughResourcesError")
    ELSE LET fights == target # Self /\ skill.initiatesCombat
             p1 == IF fights THEN initiateCombat(player, target) ELSE player
             c1 == (IF fights THEN <<"initiateCombat">> ELSE <<>>) \o <<"run">>
             p2 == cooldown(skill, p1)
             pays == skill.resource.kind # "null"
             p3 == IF pays THEN payResourceCosts(skill, p2) ELSE p2
         IN Ended(p3, c1 \o <<"cooldown">>
                         \o (IF pays THEN <<"payResourceCosts">> ELSE <<>>), "none")

\* Skill.execute(args, player, target), this.run returning `result`
execute(skill, player, target, result) ==
    IF "PASSIVE" \in skill.flags THEN Ended(player, <<>>, "PassiveError")
    ELSE IF skill.cooldownLength # 0 /\ onCooldown(skill, player) # NoEffect
    THEN Ended(player, <<>>, "CooldownError")
    ELSE IF skill.resource.kind # "null" /\ ~hasEnoughResources(skill, player)
    THEN Ended(player, <<>>, "NotEnoughResourcesError")
    ELSE LET fights == target # Self /\ skill.initiatesCombat
             p1 == IF fights THEN initiateCombat(player, target) ELSE player
             c1 == (IF fights THEN <<"initiateCombat">> ELSE <<>>) \o <<"run">>
         IN IF result # "false"
            THEN LET p2 == cooldown(skill, p1)
                     pays == skill.resource.kind # "null"
                     p3 == IF pays THEN payResourceCosts(skill, p2) ELSE p2
                 IN Ended(p3, c1 \o <<"cooldown">>
                                 \o (IF pays THEN <<"payResourceCosts">> ELSE <<>>), "none")
            ELSE Ended(p1, c1, "none")

\* the attributes a character may have: mana, and rage for some
AttributeSets == {{"mana"}, {"mana", "rage"}}

\* a character without effects, out of combat
InitSkill ==
    /\ goals = <<>>
    /\ autoComplete = FALSE
    /\ events = <<>>
    /\ calls = <<>>
    /\ threw = "none"
    /\ state = <<>>
    /\ op = [name |-> "new", skill |-> "", target |-> Self, result |-> "undefined"]
    /\ \E names \in AttributeSets :
         \E attributes \in [names -> 0..MaxAttribute] :
            character = [effects |-> <<>>, attributes |-> attributes, combatants |-> {}]

\* a skill of the bundle is executed for the character
Execute ==
    \E id \in SkillIds, target \in Targets, result \in RunResults :
        \E e \in {execute(Skill(id), character, target, result)} :
            /\ character' = e.character
            /\ calls' = e.calls
            /\ threw' = e.threw
            /\ op' = [name |-> "execute", skill |-> id, target |-> target, result |-> result]
            /\ UNCHANGED <<goals, autoComplete, events, state>>

\* an effect of the character ends and is removed
RemoveEffect ==
    \E k \in 1..Len(character.effects) :
        /\ character' = [character EXCEPT
                            !.effects = SubSeq(@, 1, k - 1) \o SubSeq(@, k + 1, Len(@))]
        /\ calls' = <<>>
        /\ threw' = "none"
        /\ op' = [name |-> "removeEffect", skill |-> character.effects[k].skill,
                  target |-> Self, result |-> "undefined"]
        /\ UNCHANGED <<goals, autoComplete, events, state>>

\* an attribute of the character regenerates by one
Regenerate ==
    \E attribute \in DOMAIN character.attributes :
        /\ character.attributes[attribute] < MaxAttribute
        /\ character' = [character EXCEPT !.attributes[attribute] = @ + 1]
        /\ calls' = <<>>
        /\ threw' = "none"
        /\ op' = [name |-> "regenerate", skill |-> "", target |-> Self, result |-> "undefined"]
        /\ UNCHANGED <<goals, autoComplete, events, state>>

NextSkill == Execute \/ RemoveEffect \/ Regenerate

SpecSkill == InitSkill /\ [][NextSkill]_vars

----------------------------------------------------------------------------

(* Vocabulary of the properties *)

GoalIds == 1..Len(goals)

Cap(gs, i) == gs[i].state.completedAsPeer

\* the goals named in goal g's peers list
PeersOf(gs, g) == {i \in 1..Len(gs) : \E k \in 1..Len(gs[g].peers) : gs[g].peers[k] = gs[i].name}

\* goal g's peers list holds a name of no goal
HasUnresolvedPeer(gs, g) == \E k \in 1..Len(gs[g].peers) : findGoalByName(gs, gs[g].peers[k]) = Undefined

\* a and b are distinct goals, each naming the other as its only peer
MutualOnly(gs, a, b) ==
    /\ a # b
    /\ gs[a].peers = <<gs[b].name>>
    /\ gs[b].peers = <<gs[a].name>>

\* positions in the last operation's call trace of the complete() invocations on goal i
CallsOn(cs, i) == {k \in 1..Len(cs) : cs[k].goal = i}

\* positions in the last operation's event trace of the deliveries of `name` to the
\* quest's own listeners
QuestEvents(name) == {k \in 1..Len(events) : events[k].on = "quest" /\ events[k].name = name}

\* r is the mean s / n rounded to a nearest integer
IsNearest(r, s, n) == (2 * (r * n - s) <= n) /\ (2 * (s - r * n) <= n)

\* sum of the effective percents of the goals i..Len(gs) that are not hidden, and
\* their number, as the data model states them
RECURSIVE MeanSum(_, _)
MeanSum(gs, i) ==
    IF i > Len(gs) THEN 0
    ELSE (IF gs[i].config.hidden THEN 0
          ELSE IF Cap(gs, i) = "true" THEN 100 ELSE gs[i].state.percent) + MeanSum(gs, i + 1)

MeanCount(gs) == Cardinality({i \in 1..Len(gs) : ~gs[i].config.hidden})

----------------------------------------------------------------------------
(* C1 *)

\* C1: for goals a and b each naming the other as its only peer, a direct
\* a.complete() from a state where a's completedAsPeer is unset ends with b's
\* completedAsPeer true, a's completedAsPeer still not true, exactly one
\* invocation of b.complete, made with completedAsPeer = true, and no invocation
\* of a.complete besides the original one.
C1_MutualPeersDirectComplete ==
    [][\A a \in GoalIds, b \in GoalIds :
          (/\ op'.name = "goal.complete"
           /\ op'.goal = a
           /\ ~op'.completedAsPeer
           /\ MutualOnly(goals, a, b)
           /\ Cap(goals, a) = "unset")
          => (/\ threw' = "none"
              /\ Cap(goals', b) = "true"
              /\ Cap(goals', a) # "true"
              /\ Cardinality(CallsOn(calls', b)) = 1
              /\ \A k \in CallsOn(calls', b) : calls'[k].completedAsPeer
              /\ Cardinality(CallsOn(calls', a)) = 1)]_vars

----------------------------------------------------------------------------
(* C2 *)

\* C2: whatever the peer graph (chains, cycles, a goal naming itself, unresolved
\* names), a QuestGoal.complete() called from outside returns without exhausting
\* the stack; a direct call makes at most one further invocation per entry of the
\* goal's peers list, each made by the originating goal with completedAsPeer =
\* true; an invocation with completedAsPeer = true invokes complete() on no goal.
C2_CascadeTerminates ==
    op.name = "goal.complete" =>
        /\ threw = "none"
        /\ Len(calls) >= 1
        /\ calls[1] = [goal |-> op.goal, completedAsPeer |-> op.completedAsPeer,
                       by |-> Caller("external", 0, FALSE), at |-> 0]
        /\ Len(calls) - 1 <= Len(goals[op.goal].peers)
        /\ \A k \in 2..Len(calls) :
              /\ calls[k].completedAsPeer
              /\ calls[k].by = Caller("goal", op.goal, FALSE)
        /\ op.completedAsPeer => Len(calls) = 1

\* a direct complete() on goal 1 of the three-goal cycle 1 -> 2 -> 3 -> 1
C2_Witness ==
    /\ op.name = "goal.complete"
    /\ op.goal = 1
    /\ ~op.completedAsPeer
    /\ Len(goals) = 3
    /\ goals[1].peers = <<2>>
    /\ goals[2].peers = <<3>>
    /\ goals[3].peers = <<1>>
    /\ Len(calls) = 2
    /\ threw = "none"

----------------------------------------------------------------------------
(* C3 *)

\* C3: a goal whose complete() was invoked by onProgressUpdated because its own
\* native percent reached 100 does not have state.completedAsPeer = true.
C3_OwnProgressNeverCompletedAsPeer ==
    \A g \in GoalIds :
        (op.name = "progress" /\ op.goal = g /\ op.percent >= 100 /\ threw = "none")
        => Cap(goals, g) # "true"

----------------------------------------------------------------------------
(* C4 *)

\* C4: a direct complete() on goal g changes the state of exactly the goals named
\* in g.peers (setting their completedAsPeer to true); every other goal, in
\* particular a peer of a peer that g does not name, keeps its state.
C4_CascadeOneHop ==
    [][\A g \in GoalIds :
          (op'.name = "goal.complete" /\ op'.goal = g /\ ~op'.completedAsPeer)
          => (/\ \A i \in PeersOf(goals, g) : Cap(goals', i) = "true"
              /\ \A i \in GoalIds \ PeersOf(goals, g) : goals'[i].state = goals[i].state)]_vars

----------------------------------------------------------------------------
(* C5 *)

\* C5 (as stated): QuestGoal.complete() on a goal whose peers list holds a name
\* of no goal raises an error, for direct and peer-triggered invocations alike.
C5_UnresolvedPeerFailsFast ==
    (op.name = "goal.complete" /\ HasUnresolvedPeer(goals, op.goal)) => threw # "none"

\* C5 (amended): QuestGoal.complete() on a goal whose peers list holds a name of
\* no goal skips that entry and returns normally, for direct and peer-triggered
\* invocations alike: no error is raised, every goal the list does name has
\* completedAsPeer = true, and a direct call still invokes complete() once per
\* entry that resolves.
C5_UnresolvedPeerSkipped ==
    (op.name = "goal.complete" /\ HasUnresolvedPeer(goals, op.goal)) =>
        /\ threw = "none"
        /\ \A i \in PeersOf(goals, op.goal) : Cap(goals, i) = "true"
        /\ Len(calls) = 1 + (IF op.completedAsPeer THEN 0
                             ELSE Cardinality({k \in 1..Len(goals[op.goal].peers) :
                                     findGoalByName(goals, goals[op.goal].peers[k]) # Undefined}))

\* a direct complete() on goal 1 whose peers are an unknown name followed by goal 2
C5_Witness ==
    /\ op.name = "goal.complete"
    /\ op.goal = 1
    /\ ~op.completedAsPeer
    /\ Len(goals) >= 2
    /\ goals[1].peers = <<0, 2>>
    /\ Cap(goals, 2) = "true"
    /\ Len(calls) = 2
    /\ threw = "none"

----------------------------------------------------------------------------
(* C6 *)

\* C6: whenever onProgressUpdated reveals a hidden goal, emits turn-in-ready or
\* calls Quest.complete(), every goal visible at that moment has effective
\* percent 100.
C6_DecisionOnlyWhenAllVisibleAt100 ==
    (op.name = "progress" /\ op.branch \in {"reveal", "turn-in-ready", "complete"})
    => \A k \in 1..Len(op.atDecision) : op.atDecision[k] = 100

----------------------------------------------------------------------------
(* C7 *)

\* C7: an onProgressUpdated call that finds the aggregate at 100 while a goal is
\* still hidden delivers exactly two events: reveal on one goal, which is no
\* longer hidden, and one quest progress event whose payload is the aggregate of
\* the state after the reveal with the title 'New Goal!'; exactly one more goal is
\* visible; no complete and no turn-in-ready is emitted and Quest.complete() is
\* not called, whatever autoComplete is.
C7_RevealDefersCompletion ==
    (op.name = "progress" /\ op.aggregate >= 100 /\ Len(op.atDecision) < Len(goals)) =>
        /\ threw = "none"
        /\ Len(events) = 2
        /\ \E r \in GoalIds :
              /\ events[1] = Delivery("goal", r, "reveal", <<>>)
              /\ ~goals[r].config.hidden
        /\ events[2].on = "quest"
        /\ events[2].name = "progress"
        /\ Len(events[2].payload) = 1
        /\ events[2].payload[1].title = "New Goal!"
        /\ events[2].payload[1].percent = getProgress(goals).percent
        /\ events[2].payload[1].display = getProgress(goals).display
        /\ Len(visibleGoals(goals)) = Len(op.atDecision) + 1
        /\ op.questCompletes = 0
        /\ \A k \in 1..Len(calls) : calls[k].by.kind # "Quest.complete"

\* a reveal in an auto-completing quest that still leaves a goal hidden
C7_Witness ==
    /\ op.name = "progress"
    /\ op.aggregate >= 100
    /\ Len(op.atDecision) < Len(goals)
    /\ autoComplete
    /\ Len(events) = 2
    /\ \E i \in GoalIds : goals[i].config.hidden

----------------------------------------------------------------------------
(* C8 *)

\* C8: an onProgressUpdated call that finds every goal visible and the aggregate
\* at 100 emits no progress event; with autoComplete it emits complete once,
\* no turn-in-ready, and Quest.complete invokes complete() with the default option
\* once on every goal; without autoComplete it emits turn-in-ready once, no
\* complete, and Quest.complete() is not invoked.
C8_AutoCompleteVsTurnIn ==
    (op.name = "progress" /\ op.aggregate >= 100 /\ Len(op.atDecision) = Len(goals)) =>
        /\ threw = "none"
        /\ QuestEvents("progress") = {}
        /\ IF autoComplete
           THEN /\ Cardinality(QuestEvents("complete")) = 1
                /\ QuestEvents("turn-in-ready") = {}
                /\ op.questCompletes = 1
                /\ \A i \in GoalIds :
                      Cardinality({k \in CallsOn(calls, i) :
                                      /\ calls[k].by.kind = "Quest.complete"
                                      /\ ~calls[k].completedAsPeer}) = 1
           ELSE /\ Cardinality(QuestEvents("turn-in-ready")) = 1
                /\ QuestEvents("complete") = {}
                /\ op.questCompletes = 0
                /\ \A k \in 1..Len(calls) : calls[k].by.kind # "Quest.complete"

\* an auto-completing quest of three visible goals completing on a progress report
C8_Witness ==
    /\ op.name = "progress"
    /\ op.aggregate >= 100
    /\ Len(op.atDecision) = Len(goals)
    /\ Len(goals) = 3
    /\ autoComplete
    /\ op.questCompletes = 1

----------------------------------------------------------------------------
(* C9 *)

\* C9: with at least one visible goal, the percent of Quest.getProgress(), and of
\* every progress event the quest emitted on the current goals, is the mean of
\* the visible goals' effective percents (100 for completedAsPeer = true, the
\* native percent otherwise) rounded to a nearest integer; hidden goals count
\* neither in the sum nor in the number of goals.
C9_AggregateIsRoundedMean ==
    MeanCount(goals) >= 1 =>
        /\ IsNearest(getProgress(goals).percent, MeanSum(goals, 1), MeanCount(goals))
        /\ \A k \in QuestEvents("progress") :
              IsNearest(events[k].payload[1].percent, MeanSum(goals, 1), MeanCount(goals))

\* a progress event over three visible goals, one of them completed as a peer while
\* natively below 100, whose mean is no integer
C9_Witness ==
    /\ MeanCount(goals) = 3
    /\ QuestEvents("progress") # {}
    /\ \E i \in GoalIds :
          ~goals[i].config.hidden /\ Cap(goals, i) = "true" /\ goals[i].state.percent < 100
    /\ MeanSum(goals, 1) % MeanCount(goals) # 0

----------------------------------------------------------------------------
(* C10 *)

\* C10: with zero visible goals the aggregate percent is the number 0 (stated for
\* the older variant of Quest.getProgress: the aggregate it computes for a
\* progress report or a read is 0).
C10_ZeroVisibleGoalsPercentIsZero ==
    (op.name \in {"progress", "getProgress"} /\ Len(visibleGoals(goals)) = 0)
    => op.aggregate = 0

----------------------------------------------------------------------------
(* C11 *)

\* the display text that is the title and nothing else
TitleOnly(t) == [kind |-> "title", title |-> t, goal |-> 0, percent |-> 0]

\* C11 (as stated): a goal with state.completedAsPeer = true has effective
\* percent 100 whatever its native percent is, and its effective display is
\* exactly its config.title (the empty string when it has no title), never the
\* native text and with nothing added to the title.
C11_PeerCompletedDisplayIsTitle ==
    \A i \in GoalIds :
        Cap(goals, i) = "true" =>
            /\ Goal_getProgress(goals[i]).percent = 100
            /\ Goal_getProgress(goals[i]).display =
                  (IF goals[i].config.title # 0 THEN TitleOnly(goals[i].config.title)
                   ELSE EmptyDisplay)

\* C11 (amended): a goal with state.completedAsPeer = true has effective percent
\* 100 whatever its native percent is, and its effective display is its
\* config.title followed by ': X' (the empty string when it has no title), never
\* the native text; the same texts are the goal's lines in Quest.getProgress().
C11_PeerCompletedDisplayIsTitleColonX ==
    \A i \in GoalIds :
        Cap(goals, i) = "true" =>
            /\ Goal_getProgress(goals[i]).percent = 100
            /\ Goal_getProgress(goals[i]).display =
                  (IF goals[i].config.title # 0 THEN TitleColonX(goals[i].config.title)
                   ELSE EmptyDisplay)
            /\ Goal_getProgress(goals[i]).display # NativeDisplay(goals[i])
            /\ \A k \in 1..Len(visibleGoals(goals)) :
                  visibleGoals(goals)[k] = i =>
                      getProgress(goals).display[k] = Goal_getProgress(goals[i]).display

\* a titled goal and an untitled goal both completed as peers while natively below 100
C11_Witness ==
    /\ \E i \in GoalIds :
          Cap(goals, i) = "true" /\ goals[i].config.title # 0 /\ goals[i].state.percent < 100
    /\ \E j \in GoalIds :
          Cap(goals, j) = "true" /\ goals[j].config.title = 0 /\ goals[j].state.percent < 100

----------------------------------------------------------------------------
(* C12 *)

\* C12: when goal g reports a native percent >= 100, onProgressUpdated invokes
\* g.complete() with the default option first, so in that same call every goal
\* named in g.peers has completedAsPeer = true and g and its visible peers count
\* 100 in the aggregate the call decides on; if g and its peers are all the goals
\* and none is hidden, the call takes the completion branch (complete or
\* turn-in-ready) and emits no progress event.
C12_PeersCompleteInLockstep ==
    [][\A g \in GoalIds :
          (op'.name = "progress" /\ op'.goal = g /\ op'.percent >= 100)
          => (/\ threw' = "none"
              /\ Len(calls') >= 1
              /\ calls'[1] = [goal |-> g, completedAsPeer |-> FALSE,
                              by |-> Caller("onProgressUpdated", 0, FALSE), at |-> 0]
              /\ \A i \in PeersOf(goals, g) : Cap(goals', i) = "true"
              /\ Len(op'.atDecision) = Len(visibleGoals(goals))
              /\ \A k \in 1..Len(visibleGoals(goals)) :
                    visibleGoals(goals)[k] \in PeersOf(goals, g) \cup {g}
                    => op'.atDecision[k] = 100
              /\ ((/\ PeersOf(goals, g) \cup {g} = GoalIds
                   /\ \A i \in GoalIds : ~goals[i].config.hidden)
                  => (/\ op'.branch \in {"complete", "turn-in-ready"}
                      /\ \A k \in 1..Len(events') :
                            ~(events'[k].on = "quest" /\ events'[k].name = "progress"))))]_vars

\* a goal with two peers, both natively below 100, reported 100 and the quest of
\* these three visible goals took the completion branch
C12_Witness ==
    /\ op.name = "progress"
    /\ op.percent = 100
    /\ Len(goals) = 3
    /\ \A i \in GoalIds : ~goals[i].config.hidden
    /\ PeersOf(goals, op.goal) = GoalIds \ {op.goal}
    /\ \A i \in PeersOf(goals, op.goal) : goals[i].state.percent < 100 /\ Cap(goals, i) = "true"
    /\ op.branch \in {"complete", "turn-in-ready"}
    /\ op.atDecision = <<100, 100, 100>>

----------------------------------------------------------------------------
(* C13 *)

\* positions in the last operation's event trace of the deliveries the quest proxied
ProxyEvents == {k \in 1..Len(events) : events[k].on = "proxy"}

\* C13: every event emitted on the quest under a name other than 'progress' is
\* followed at once, after the quest's own listeners, by one delivery of the same
\* name and arguments to each goal, hidden or not, in registration order, and
\* nothing else is ever proxied; an event emitted on the quest as 'progress' is
\* delivered to no goal, so no goal sees a 'progress' it did not emit itself and
\* onProgressUpdated is not re-entered.
C13_EventsProxiedToEveryGoal ==
    /\ \A k \in 1..Len(events) :
          events[k].on = "quest" =>
              IF events[k].name # "progress"
              THEN /\ k + Len(goals) <= Len(events)
                   /\ \A i \in GoalIds :
                         events[k + i] = Delivery("proxy", i, events[k].name, events[k].payload)
              ELSE k = Len(events) \/ events[k + 1].on # "proxy"
    /\ Cardinality(ProxyEvents) =
          Len(goals) * Cardinality({k \in 1..Len(events) :
                                       events[k].on = "quest" /\ events[k].name # "progress"})
    /\ \A k \in 1..Len(events) :
          events[k].on \in {"proxy", "goal"} => events[k].name # "progress"

\* an event with two arguments emitted on a quest of three goals, one still hidden
C13_Witness ==
    /\ op.name = "emit"
    /\ Len(goals) = 3
    /\ \E i \in GoalIds : goals[i].config.hidden
    /\ Len(events) = 4
    /\ events[1] = Delivery("quest", 0, "start", <<1, 2>>)

----------------------------------------------------------------------------
(* C14 *)

\* C14: a quest.hydrate() that reads the list quest.serialize().state just
\* assigned to quest.state returns normally and leaves every goal with a state
\* bag equal to the one it had, whether its completedAsPeer is true, false or
\* absent, and with the same effective progress (percent and display).
C14_SerializeHydrateRoundTrip ==
    [][(op'.name = "hydrate" /\ state = questSerialize(goals).state)
       => (/\ threw' = "none"
           /\ Len(goals') = Len(goals)
           /\ \A i \in GoalIds :
                 /\ goals'[i].state = goals[i].state
                 /\ Goal_getProgress(goals'[i]) = Goal_getProgress(goals[i]))]_vars

\* a round trip of a quest of two goals of which one has completedAsPeer true and
\* the other false, the first natively below 100
C14_Witness ==
    /\ op.name = "hydrate"
    /\ state = questSerialize(goals).state
    /\ Len(goals) = 2
    /\ \E i \in GoalIds, j \in GoalIds :
          /\ Cap(goals, i) = "true"
          /\ goals[i].state.percent < 100
          /\ Cap(goals, j) = "false"

----------------------------------------------------------------------------
(* C15 *)

\* C15: quest.hydrate() assigns the state bag of entry i of quest.state to goal i,
\* for the entries that have a goal, and changes nothing else: the number and
\* order of the goals, every goal's name, peers and config (config.hidden
\* included, whatever the entry's saved config says), the bags of goals without
\* an entry, quest.state and the quest's configuration stay as they were.
C15_HydrateRestoresOnlyStateBags ==
    [][op'.name = "hydrate"
       => (/\ Len(goals') = Len(goals)
           /\ \A i \in GoalIds :
                 /\ goals'[i].name = goals[i].name
                 /\ goals'[i].peers = goals[i].peers
                 /\ goals'[i].config = goals[i].config
                 /\ goals'[i].state = (IF i <= Len(state) THEN state[i].state
                                       ELSE goals[i].state)
           /\ state' = state
           /\ autoComplete' = autoComplete)]_vars

\* a goal revealed before the quest was saved is hidden in the reloaded and hydrated
\* quest, although its saved entry says it is not hidden, and has its saved bag
C15_Witness ==
    /\ op.name = "hydrate"
    /\ Len(goals) = 2
    /\ Len(state) = 2
    /\ goals[2].config.hidden
    /\ ~state[2].config.hidden
    /\ goals[2].state = state[2].state
    /\ goals[2].state.percent = 100
    /\ goals[1].state.percent = 100

----------------------------------------------------------------------------
(* C16 *)

\* C16: the complete event is terminal: a goal progress notification that follows
\* one in which the quest emitted complete makes the quest emit neither complete
\* again nor progress nor turn-in-ready.
C16_CompleteIsTerminal ==
    [][(op.name = "progress" /\ QuestEvents("complete") # {} /\ op'.name = "progress")
       => \A k \in 1..Len(events') :
             ~(/\ events'[k].on = "quest"
               /\ events'[k].name \in {"complete", "progress", "turn-in-ready"})]_vars

----------------------------------------------------------------------------
(* C17 *)

\* C17: repeated completion is harmless: when the last operation, a complete()
\* with the default option, invoked complete() on goal g (g being the goal it was
\* called on, or one of that goal's peers), a further g.complete() with the
\* default option changes no goal's state; no completedAsPeer flag that was not
\* true becomes true.
C17_RepeatedCompletionHarmless ==
    [][\A g \in GoalIds :
          (/\ op.name = "goal.complete"
           /\ ~op.completedAsPeer
           /\ threw = "none"
           /\ CallsOn(calls, g) # {}
           /\ op'.name = "goal.complete"
           /\ op'.goal = g
           /\ ~op'.completedAsPeer)
          => \A i \in GoalIds : goals'[i].state = goals[i].state]_vars

----------------------------------------------------------------------------
(* C18 *)

\* positions in the last operation's call trace of the invocations Quest.complete made
QuestCompleteCalls == {k \in 1..Len(calls) : calls[k].by.kind = "Quest.complete"}

\* C18: an operation that runs Quest.complete() once emits complete once, to the
\* quest's listeners and then to every goal in order, and only after these
\* deliveries does Quest.complete invoke complete(), with the default option, once
\* on every goal, hidden or already completed as a peer, in registration order.
C18_CompleteEmitsThenCompletesGoals ==
    op.questCompletes = 1 =>
        /\ threw = "none"
        /\ Cardinality(QuestEvents("complete")) = 1
        /\ \A e \in QuestEvents("complete") :
              /\ e + Len(goals) <= Len(events)
              /\ \A i \in GoalIds : events[e + i] = Delivery("proxy", i, "complete", <<>>)
              /\ \A k \in QuestCompleteCalls : calls[k].at >= e + Len(goals)
        /\ \A i \in GoalIds : Cardinality(QuestCompleteCalls \cap CallsOn(calls, i)) = 1
        /\ \A k \in QuestCompleteCalls : ~calls[k].completedAsPeer
        /\ \A k1 \in QuestCompleteCalls, k2 \in QuestCompleteCalls :
              k1 < k2 => calls[k1].goal < calls[k2].goal

\* a turn-in of a quest of three goals, one hidden and one completed as a peer,
\* whose completion cascaded to peers
C18_Witness ==
    /\ op.name = "complete"
    /\ op.questCompletes = 1
    /\ Len(goals) = 3
    /\ \E i \in GoalIds : goals[i].config.hidden
    /\ \E i \in GoalIds : Cap(goals, i) = "true"
    /\ Len(calls) > 3
    /\ Len(events) = 4

----------------------------------------------------------------------------
(* C19 *)

\* C19: an onProgressUpdated call that takes the reveal branch clears the hidden
\* flag of exactly one goal, the first goal in registration order that was hidden
\* (every goal before it was visible), emits reveal on that goal, and leaves the
\* hidden flag of every other goal, in particular of later hidden goals, as it was.
C19_RevealsFirstHiddenGoalOnly ==
    [][(op'.name = "progress" /\ op'.branch = "reveal")
       => \E h \in GoalIds :
             /\ goals[h].config.hidden
             /\ \A j \in 1..(h - 1) : ~goals[j].config.hidden
             /\ ~goals'[h].config.hidden
             /\ \A i \in GoalIds \ {h} : goals'[i].config.hidden = goals[i].config.hidden
             /\ Cardinality({k \in 1..Len(events') : events'[k].name = "reveal"}) = 1
             /\ \A k \in 1..Len(events') :
                   events'[k].name = "reveal" => events'[k] = Delivery("goal", h, "reveal", <<>>)]_vars

\* a reveal of goal 2 of three goals that leaves goal 3 hidden
C19_Witness ==
    /\ op.name = "progress"
    /\ op.branch = "reveal"
    /\ Len(goals) = 3
    /\ events[1] = Delivery("goal", 2, "reveal", <<>>)
    /\ ~goals[2].config.hidden
    /\ goals[3].config.hidden

----------------------------------------------------------------------------
(* C20 *)

\* positions of text t in the texts of Quest.fullDescription
TextAt(gs, t) == {k \in 1..Len(fullDescription(gs).texts) : fullDescription(gs).texts[k] = t}

\* C20: when a goal with a quest log text has just finished through its own
\* progress (it reported a native percent of at least 100 and onProgressUpdated
\* invoked its complete()), Quest.fullDescription contains that text once, after
\* the texts of earlier goals, also when the goal's peers name it back.
C20_FinishedGoalTextInFullDescription ==
    \A g \in GoalIds :
        (/\ op.name = "progress"
         /\ op.goal = g
         /\ op.percent >= 100
         /\ threw = "none"
         /\ goals[g].config.addToQuestLogOnCompletion # 0)
        => /\ Cardinality(TextAt(goals, goals[g].config.addToQuestLogOnCompletion)) = 1
           /\ \A k1 \in 1..Len(fullDescription(goals).texts),
                 k2 \in 1..Len(fullDescription(goals).texts) :
                 k1 < k2 => fullDescription(goals).texts[k1] < fullDescription(goals).texts[k2]

----------------------------------------------------------------------------
(* C21 *)

\* the characters of s that are neither blanks nor separators, in order
Letters(s) == SelectSeq(s, LAMBDA c : c \notin {" ", ","})

\* the letters of the names of a peers list, in order
RECURSIVE LettersOfAll(_)
LettersOfAll(names) ==
    IF names = <<>> THEN <<>> ELSE Letters(Head(names)) \o LettersOfAll(Tail(names))

\* names are what a non-empty argument s lists: one name per separator plus one,
\* none holding a separator or starting or ending with a blank, the letters being
\* those of s in the order given
ListsTrimmedNames(names, s) ==
    /\ Len(names) = Len(SelectSeq(s, LAMBDA c : c = ",")) + 1
    /\ \A k \in 1..Len(names) :
          /\ \A j \in 1..Len(names[k]) : names[k][j] # ","
          /\ names[k] # <<>> => (names[k][1] # " " /\ names[k][Len(names[k])] # " ")
    /\ LettersOfAll(names) = Letters(s)

\* C21 (as stated): a setPeers call with an empty or absent argument returns
\* without raising and leaves the goal's peers list empty, whatever calls came
\* before; a call with a non-empty comma-separated string sets peers to the
\* trimmed names in the order given.
C21_EmptyArgumentLeavesPeersEmpty ==
    op.name = "setPeers" =>
        /\ threw = "none"
        /\ IF op.arg = Absent \/ op.arg = <<>>
           THEN goals[1].peers = <<>>
           ELSE ListsTrimmedNames(goals[1].peers, op.arg)

\* C21 (amended): a setPeers call with an empty or absent argument returns without
\* raising and leaves the goal's peers list as it was: empty on a goal whose peers
\* were never set, the names of the last non-empty call otherwise; a call with a
\* non-empty comma-separated string sets peers to the trimmed names in the order
\* given; nothing else of the goal changes.
C21_EmptyArgumentKeepsPeers ==
    [][op'.name = "setPeers"
       => (/\ threw' = "none"
           /\ IF op'.arg = Absent \/ op'.arg = <<>>
              THEN goals'[1].peers = goals[1].peers
              ELSE ListsTrimmedNames(goals'[1].peers, op'.arg)
           /\ op.name = "new" => (op'.arg = Absent \/ op'.arg = <<>>
                                   => goals'[1].peers = <<>>)
           /\ [goals'[1] EXCEPT !.peers = <<>>] = [goals[1] EXCEPT !.peers = <<>>])]_vars

\* an empty argument given to a goal whose peers are the names a and b
C21_Witness ==
    /\ op.name = "setPeers"
    /\ op.arg = <<>>
    /\ goals[1].peers = << <<"a">>, <<"b">> >>

----------------------------------------------------------------------------
(* C22 *)

\* number of goals of gs whose config.hidden is true
HiddenCount(gs) == Cardinality({i \in 1..Len(gs) : gs[i].config.hidden})

\* C22 (as stated): the goals sequence only grows, by addGoal appending at the
\* end; event broadcast, onProgressUpdated, complete, serialize and hydrate never
\* remove, reorder or add goals; the number of hidden goals never increases and a
\* revealed goal never becomes hidden again.
C22_GoalsAppendOnlyHiddenNeverMore ==
    [][/\ Len(goals') >= Len(goals)
       /\ \A i \in 1..Len(goals) :
             /\ goals'[i].name = goals[i].name
             /\ goals'[i].config.hidden => goals[i].config.hidden
       /\ Len(goals') > Len(goals) => (op'.name = "addGoal" /\ Len(goals') = Len(goals) + 1)
       /\ HiddenCount(goals') <= HiddenCount(goals)]_vars

\* C22 (amended): the goals sequence only grows, by addGoal appending one goal at
\* the end; event broadcast, onProgressUpdated, complete, serialize and hydrate
\* never remove, reorder or add goals; a goal that is not hidden never becomes
\* hidden, so the number of hidden goals increases only when addGoal registers a
\* goal that is hidden.
C22_GoalsAppendOnlyNeverHiddenAgain ==
    [][/\ Len(goals') >= Len(goals)
       /\ \A i \in 1..Len(goals) :
             /\ goals'[i].name = goals[i].name
             /\ goals'[i].config.hidden => goals[i].config.hidden
       /\ Len(goals') > Len(goals) => (op'.name = "addGoal" /\ Len(goals') = Len(goals) + 1)
       /\ HiddenCount(goals') > HiddenCount(goals)
             => (op'.name = "addGoal" /\ goals'[Len(goals')].config.hidden)]_vars

\* a hidden second goal registered on a quest that was already played and serialized
C22_Witness ==
    /\ op.name = "addGoal"
    /\ Len(goals) = 2
    /\ goals[1].state.percent = 100
    /\ state # <<>>
    /\ goals[2].config.hidden

----------------------------------------------------------------------------
(* C23 *)

\* the state bags a goal may hold
StateBags == [completedAsPeer : SavedFlags, percent : Percents]

\* the quests that agree with gs on every goal that is not hidden and hold any
\* state bags in the hidden goals
HiddenVariants(gs) ==
    {[i \in 1..Len(gs) |-> IF gs[i].config.hidden THEN [gs[i] EXCEPT !.state = bags[i]]
                           ELSE gs[i]] :
        bags \in [{i \in 1..Len(gs) : gs[i].config.hidden} -> StateBags]}

\* C23: a quest and any quest that agrees with it on the goals that are not hidden,
\* whatever the state and native progress of the hidden goals, get the same
\* percent and the same display from Quest.getProgress(); the display is the
\* effective displays of the goals that are not hidden, in registration order.
C23_HiddenGoalsDoNotShowInProgress ==
    /\ \A other \in HiddenVariants(goals) :
          /\ getProgress(other).percent = getProgress(goals).percent
          /\ getProgress(other).display = getProgress(goals).display
    /\ Len(getProgress(goals).display) = MeanCount(goals)
    /\ \A k \in 1..Len(getProgress(goals).display) :
          \E i \in GoalIds :
              /\ ~goals[i].config.hidden
              /\ Cardinality({j \in 1..i : ~goals[j].config.hidden}) = k
              /\ getProgress(goals).display[k] = Goal_getProgress(goals[i]).display

\* a hidden goal natively at 100 next to two visible goals below 100
C23_Witness ==
    /\ Len(goals) = 3
    /\ goals[2].config.hidden
    /\ goals[2].state.percent = 100
    /\ ~goals[1].config.hidden
    /\ ~goals[3].config.hidden
    /\ goals[1].state.percent = 99
    /\ goals[3].state.percent = 0
    /\ getProgress(goals).percent = 50

----------------------------------------------------------------------------
(* C24 *)

\* what the last operation emitted on the quest and on single goals, in order,
\* without the copies Quest.emit proxies to the goals
Emitted == SelectSeq(events, LAMBDA e : e.on # "proxy")

NothingHidden == \A i \in GoalIds : ~goals[i].config.hidden

\* C24: every call of onProgressUpdated has exactly one of four outcomes: one
\* 'progress' with the aggregate snapshot when the aggregate is below 100; one
\* 'progress' titled 'New Goal!' with one 'reveal' when the aggregate is 100 and a
\* goal is hidden; one 'turn-in-ready' when the aggregate is 100, nothing is hidden
\* and autoComplete is false; one 'complete' when the aggregate is 100, nothing is
\* hidden and autoComplete is true. No call emits two of these or none.
C24_ExactlyOneOutcomePerProgressUpdate ==
    op.name = "progress" =>
        /\ threw = "none"
        /\ \/ /\ op.aggregate < 100
              /\ op.branch = "progress"
              /\ getProgress(goals).percent = op.aggregate
              /\ Emitted = <<Delivery("quest", 0, "progress", <<getProgress(goals)>>)>>
           \/ /\ op.aggregate >= 100
              /\ op.branch = "reveal"
              /\ \E h \in GoalIds :
                    /\ ~goals[h].config.hidden
                    /\ Emitted = <<Delivery("goal", h, "reveal", <<>>),
                                   Delivery("quest", 0, "progress",
                                            <<[getProgress(goals) EXCEPT !.title = "New Goal!"]>>)>>
           \/ /\ op.aggregate >= 100
              /\ op.branch = "turn-in-ready"
              /\ NothingHidden
              /\ ~autoComplete
              /\ Emitted = <<Delivery("quest", 0, "turn-in-ready", <<>>)>>
           \/ /\ op.aggregate >= 100
              /\ op.branch = "complete"
              /\ NothingHidden
              /\ autoComplete
              /\ Emitted = <<Delivery("quest", 0, "complete", <<>>)>>

\* the auto-complete outcome in a quest of two goals
C24_Witness ==
    /\ op.name = "progress"
    /\ op.branch = "complete"
    /\ Len(goals) = 2
    /\ Emitted = <<Delivery("quest", 0, "complete", <<>>)>>

----------------------------------------------------------------------------
(* C25 *)

\* the last notification signalled completion
CompletionSignalled == op.name = "progress" /\ op.branch \in {"complete", "turn-in-ready"}

\* one notification of the staged reveal: with a goal hidden it reveals exactly one
\* goal and signals nothing else; with none hidden it signals completion
StagedStep ==
    /\ HiddenCount(goals) > 0 =>
          /\ HiddenCount(goals') = HiddenCount(goals) - 1
          /\ op'.branch = "reveal"
          /\ \A k \in 1..Len(events') : events'[k].name \notin {"complete", "turn-in-ready"}
    /\ HiddenCount(goals) = 0 =>
          /\ op'.branch = (IF autoComplete THEN "complete" ELSE "turn-in-ready")
          /\ \E k \in 1..Len(events') :
                /\ events'[k].on = "quest"
                /\ events'[k].name = op'.branch

\* C25: in a quest with at least one visible goal and k hidden goals, every goal
\* natively at 100, each progress notification reveals exactly one hidden goal: the
\* first k notifications only reveal and notification k+1 emits 'complete' or
\* 'turn-in-ready'. With the notifications delivered fairly the quest eventually
\* signals completion, and never after fewer than k+1 notifications.
C25_StagedRevealReachesCompletion ==
    /\ [][StagedStep]_vars
    /\ [](CompletionSignalled => op.notifications >= op.hiddenAtStart + 1)
    /\ [](op.notifications = op.hiddenAtStart + 1 => CompletionSignalled)
    /\ <>CompletionSignalled

\* two goals hidden at first, completion signalled by the third notification
C25_Witness ==
    /\ op.name = "progress"
    /\ op.hiddenAtStart = 2
    /\ op.notifications = 3
    /\ op.branch \in {"complete", "turn-in-ready"}
    /\ HiddenCount(goals) = 0

----------------------------------------------------------------------------
(* C26 *)

\* C26: the error 'no more hidden goals to reveal' is never raised: whenever fewer
\* goals are visible than registered, some goal has config.hidden true, and the find
\* of the reveal branch returns one.
C26_NoMoreHiddenGoalsErrorUnreachable ==
    /\ threw # "Error"
    /\ Len(visibleGoals(goals)) < Len(goals) =>
          /\ \E i \in GoalIds : goals[i].config.hidden
          /\ firstHiddenFrom(goals, 1) # Undefined

\* a reveal took place and fewer goals are visible than registered still
C26_Witness ==
    /\ op.name = "progress"
    /\ op.branch = "reveal"
    /\ threw = "none"
    /\ Len(visibleGoals(goals)) < Len(goals)
    /\ goals[Len(goals)].config.hidden

----------------------------------------------------------------------------
(* C27 *)

AllHidden(gs) == \A i \in 1..Len(gs) : gs[i].config.hidden

\* C27: a quest all of whose goals are hidden is stuck: no goal is ever revealed,
\* onProgressUpdated emits neither 'turn-in-ready' nor 'complete', and every call of
\* it takes the in-progress branch with an aggregate percent of 0.
C27_AllHiddenQuestIsStuck ==
    [][AllHidden(goals) =>
          /\ AllHidden(goals')
          /\ op'.name = "progress" =>
                /\ op'.branch = "progress"
                /\ op'.aggregate = 0
                /\ threw' = "none"
                /\ Emitted' = <<Delivery("quest", 0, "progress", <<getProgress(goals')>>)>>
                /\ getProgress(goals').percent = 0]_vars

\* two hidden goals, both natively at 100, and the last report took the
\* in-progress branch
C27_Witness ==
    /\ Len(goals) = 2
    /\ AllHidden(goals)
    /\ \A i \in GoalIds : goals[i].state.percent = 100
    /\ op.name = "progress"
    /\ op.branch = "progress"
    /\ op.aggregate = 0

----------------------------------------------------------------------------
(* C28 *)

\* the character carries a cooldown effect with the cooldown id of skill `id`
Carries(player, id) ==
    \E k \in 1..Len(player.effects) :
        /\ player.effects[k].id = "cooldown"
        /\ player.effects[k].state.cooldownId = getCooldownId(Skill(id))

\* the step executes a skill
Executes == op'.name = "execute"

\* an execute that completed, of a skill with a cooldownLength, whose run did not
\* return false, leaves the cooldown effect on the character
CooldownFollowsExecute ==
    (/\ Executes
     /\ threw' = "none"
     /\ op'.result # "false"
     /\ Skill(op'.skill).cooldownLength # 0) => Carries(character', op'.skill)

\* skills whose cooldown id no effect of the character carries are not blocked
OthersNotBlocked ==
    (Executes /\ ~Carries(character, op'.skill)) => threw' # "CooldownError"

\* C28 (as stated): after Skill.execute completes for a skill with a non-zero
\* cooldownLength whose run did not return false, the character carries a cooldown
\* effect with the skill's cooldown id, and until it is removed every execute of
\* that skill or of any skill of the same cooldown group throws CooldownError
\* without invoking run; skills with other ids and no shared group are not blocked.
C28_CooldownBlocksWholeGroup ==
    [][/\ CooldownFollowsExecute
       /\ (Executes /\ Carries(character, op'.skill)) =>
              (threw' = "CooldownError" /\ calls' = <<>>)
       /\ OthersNotBlocked]_vars

\* C28 (amended): as stated, for the skills of the group that are not passive and
\* have a non-zero cooldownLength; a passive skill throws PassiveError and a skill
\* whose cooldownLength is zero is not blocked.
C28_CooldownBlocksGroupSkillsWithCooldown ==
    [][/\ CooldownFollowsExecute
       /\ (/\ Executes
           /\ Carries(character, op'.skill)
           /\ "PASSIVE" \notin Skill(op'.skill).flags
           /\ Skill(op'.skill).cooldownLength # 0) =>
              (threw' = "CooldownError" /\ calls' = <<>> /\ character' = character)
       /\ OthersNotBlocked]_vars

\* kick is refused with CooldownError while the effect that bash added lasts, and
\* heal, with a cooldown of its own, was executed before
C28_Witness ==
    /\ op.name = "execute"
    /\ op.skill = "kick"
    /\ threw = "CooldownError"
    /\ \E k \in 1..Len(character.effects) : character.effects[k].skill = "bash"
    /\ \E k \in 1..Len(character.effects) : character.effects[k].skill = "heal"

----------------------------------------------------------------------------
(* C29 *)

\* what the skill costs in `attribute`
TotalCost(skill, attribute) ==
    SeqSum([k \in 1..Len(skill.resource.costs) |->
               IF skill.resource.costs[k].attribute = attribute
               THEN skill.resource.costs[k].cost ELSE 0])

\* the character can pay every cost of the skill
CanPay(player, skill) ==
    \A k \in 1..Len(skill.resource.costs) :
        \/ skill.resource.costs[k].cost = 0
        \/ /\ skill.resource.costs[k].attribute \in DOMAIN player.attributes
           /\ player.attributes[skill.resource.costs[k].attribute] >= skill.resource.costs[k].cost

\* the guard of Skill.execute that fails first, in the order passive, cooldown,
\* resources; "none" when none fails
FirstFailedGuard(player, id) ==
    IF "PASSIVE" \in Skill(id).flags THEN "PassiveError"
    ELSE IF Skill(id).cooldownLength # 0 /\ Carries(player, id) THEN "CooldownError"
    ELSE IF Skill(id).resource.kind # "null" /\ ~CanPay(player, Skill(id))
    THEN "NotEnoughResourcesError"
    ELSE "none"

\* C29: Skill.execute puts the skill on cooldown and pays its resource costs if and
\* only if no guard failed and run returned something other than false. A failed
\* guard (PassiveError, then CooldownError, checked before the resources, then
\* NotEnoughResourcesError) means run is not invoked, combat is not initiated and
\* nothing is put on cooldown or paid; when run returns false nothing is put on
\* cooldown and nothing is paid.
C29_CooldownAndPaymentIffRunSucceeded ==
    [][Executes =>
          LET skill == Skill(op'.skill)
              succeeded == threw' = "none" /\ op'.result # "false"
          IN /\ threw' = FirstFailedGuard(character, op'.skill)
             /\ threw' # "none" => (calls' = <<>> /\ character' = character)
             /\ threw' = "none" =>
                   \E k \in 1..Len(calls') : calls'[k] = "run"
             /\ (\E k \in 1..Len(calls') : calls'[k] = "cooldown") <=> succeeded
             /\ (\E k \in 1..Len(calls') : calls'[k] = "payResourceCosts")
                   <=> (succeeded /\ skill.resource.kind # "null")
             /\ Len(character'.effects) = Len(character.effects)
                   + (IF succeeded /\ skill.cooldownLength # 0 THEN 1 ELSE 0)
             /\ \A a \in DOMAIN character.attributes :
                   character'.attributes[a] = character.attributes[a]
                       - (IF succeeded THEN TotalCost(skill, a) ELSE 0)]_vars

\* slash is on cooldown and the character has no mana: the execute is refused with
\* CooldownError, not NotEnoughResourcesError
C29_Witness ==
    /\ op.name = "execute"
    /\ op.skill = "slash"
    /\ threw = "CooldownError"
    /\ character.attributes["mana"] = 0
    /\ calls = <<>>

----------------------------------------------------------------------------
(* C30 *)

\* the step called Skill.cooldown
CallsCooldown == Executes /\ \E k \in 1..Len(calls') : calls'[k] = "cooldown"

\* C30: the cooldown effect that Skill.cooldown adds has config.type 'cooldown:' +
\* skill id, so that each skill has its own cooldown effect type; each cooldown()
\* call adds exactly one cooldown effect, and none when cooldownLength is empty.
C30_CooldownEffectTypeNamesSkill ==
    [][CallsCooldown =>
          IF Skill(op'.skill).cooldownLength = 0
          THEN character'.effects = character.effects
          ELSE /\ Len(character'.effects) = Len(character.effects) + 1
               /\ SubSeq(character'.effects, 1, Len(character.effects)) = character.effects
               /\ character'.effects[Len(character'.effects)].id = "cooldown"
               /\ character'.effects[Len(character'.effects)].config.type
                     = <<"cooldown:", op'.skill>>]_vars

====
